---- MODULE Spec2Model ----
(***************************************************************************)
(* Model of src/touchgfx/app.py: TouchGFXSitemapScraper and main().        *)
(*                                                                         *)
(* One run of main() is a sequential pipeline                              *)
(*   fetch_sitemap -> parse_sitemap -> scrape_pages -> save_to_csv.        *)
(* The state is the locals of run()/scrape_pages()/main(), the lines       *)
(* printed so far, the network/file operations issued so far, and the      *)
(* environment (what the remote server answers, whether the CSV file can   *)
(* be opened).                                                             *)
(*                                                                         *)
(* Python values: a str that is a URL is a sequence of tokens so that the  *)
(* regular expression can be applied to it; every other str is a TLA+      *)
(* string; None is the string NoneVal where the value is an Optional[str]. *)
(***************************************************************************)
EXTENDS Integers, Sequences, FiniteSets

VARIABLES
    pc,            \* position of the single thread of control
    hOff,          \* environment: where the server's HEAD answers start
    gOff,          \* environment: where the server's GET answers start
    response,      \* fetch_sitemap(): what session.get(self.sitemap_url) produced
    xml_content,   \* run(): text returned by fetch_sitemap
    urls_data,     \* run(): list returned by parse_sitemap
    capped,        \* scrape_pages(): urls_data after the slice
    i,             \* scrape_pages(): enumerate index of the record in hand
    hlm,           \* scrape_pages(): http_last_modified of the record in hand
    hlm2,          \* scrape_pages(): http_last_modified2 of the record in hand
    results,       \* scrape_pages(): list of Enriched Records
    src,           \* for results[j], the index i of the record it was built from
    filename,      \* value returned by run()
    csv,           \* the output file
    raised,        \* exception that left run(), "" if none
    exit,          \* how main() ended: "" (running), "returned", "raised"
    log,           \* lines printed, by kind
    trace          \* network and file operations issued, in order

vars == <<pc, hOff, gOff, response, xml_content, urls_data, capped, i, hlm, hlm2,
          results, src, filename, csv, raised, exit, log, trace>>

-----------------------------------------------------------------------------
(* Bounds of the model *)

\* longest sitemap (number of <url> elements) the server serves
MaxEntries == 20

-----------------------------------------------------------------------------
(* Program constants *)

MAX_URLS_TO_FETCH == 10

NoneVal == "<None>"

\* truthiness of an Optional[str]: None and '' are falsy
Truthy(s) == s # NoneVal /\ s # ""

\* `x or ''`
OrEmpty(s) == IF Truthy(s) THEN s ELSE ""

Min(a, b) == IF a <= b THEN a ELSE b

-----------------------------------------------------------------------------
(* URLs and the exclusion pattern *)

\* literal part of r'https://support\.touchgfx\.com/4\.[12].*'; the escaped
\* dots are tokens of their own, the characters after "4." are one token each
PatternLiteral == <<"https://support", ".", "touchgfx", ".", "com/4", ".">>

PatternClass == {"1", "2"}

\* self.url_pattern.match(url): anchored at the start of the string only;
\* the trailing .* matches any rest, the empty one included
url_pattern_match(url) ==
    /\ Len(url) >= Len(PatternLiteral) + 1
    /\ SubSeq(url, 1, Len(PatternLiteral)) = PatternLiteral
    /\ url[Len(PatternLiteral) + 1] \in PatternClass

sitemap_url == <<"https://support", ".", "touchgfx", ".", "com/sitemap", ".", "xml">>

U_docs  == <<"https://support", ".", "touchgfx", ".", "com/docs">>
U_41    == PatternLiteral \o <<"1", "/", "a">>
U_42    == PatternLiteral \o <<"2">>
U_43    == PatternLiteral \o <<"3", "/">>
U_4only == PatternLiteral
U_lead  == <<" ">> \o U_41
U_xhost == <<"https://support", "x", "touchgfx", ".", "com/4", ".", "1">>

-----------------------------------------------------------------------------
(* The sitemap document as ElementTree sees it *)

\* url_element.find(...) found no such child
Absent == "<absent>"

\* <loc> child: found (find() is not None), hasText (.text is not None), text
NoLoc       == [found |-> FALSE, hasText |-> FALSE, text |-> <<>>]
EmptyLoc    == [found |-> TRUE,  hasText |-> FALSE, text |-> <<>>]
Loc(u)      == [found |-> TRUE,  hasText |-> TRUE,  text |-> u]

\* a <url> element; changefreq, priority, lastmod are Absent, NoneVal
\* (element present, .text is None) or the element's text
UrlElement(l, c, p, m) == [loc |-> l, changefreq |-> c, priority |-> p, lastmod |-> m]

Entries == <<
    UrlElement(Loc(U_docs),  "daily",  "0.5",   "2024-01-01"),
    UrlElement(Loc(U_41),    "weekly", "0.8",   "2023-02-02"),
    UrlElement(Loc(U_43),    Absent,   Absent,  Absent),
    UrlElement(NoLoc,        "daily",  "0.5",   "2022-03-03"),
    UrlElement(Loc(U_lead),  "daily",  NoneVal, NoneVal),
    UrlElement(Loc(U_42),    Absent,   "1.0",   "2021-04-04"),
    UrlElement(Loc(U_4only), "never",  "0.1",   "2020-05-05"),
    UrlElement(EmptyLoc,     "daily",  "0.5",   "2019-06-06"),
    UrlElement(Loc(U_xhost), "hourly", Absent,  "2018-07-07") >>

\* a well-formed document: n <url> elements, Entries taken round robin from off
Document(n, off) ==
    [wellformed |-> TRUE,
     urls |-> [k \in 1..n |-> Entries[((off + k - 1) % Len(Entries)) + 1]]]

\* text on which ET.fromstring raises ParseError
Malformed == [wellformed |-> FALSE, urls |-> <<>>]

Documents == {Document(n, off) : n \in 0..MaxEntries, off \in 0..(Len(Entries) - 1)}

\* what session.get(self.sitemap_url) can produce: a transport error, or a
\* response with a status and a body
SitemapResponses ==
    {[error |-> TRUE, status |-> 0, text |-> Malformed]}
    \cup {[error |-> FALSE, status |-> 200, text |-> x] : x \in Documents \cup {Malformed}}
    \cup {[error |-> FALSE, status |-> 500, text |-> Document(3, 0)],
          [error |-> FALSE, status |-> 404, text |-> Malformed]}

-----------------------------------------------------------------------------
(* fetch_sitemap *)

\* before session.get() has produced anything
NoResponse == [error |-> FALSE, status |-> 0, text |-> Malformed]

\* response.raise_for_status(): HTTPError for 4xx and 5xx
raise_for_status(resp) == resp.status >= 400 /\ resp.status < 600

\* fetch_sitemap without the raise_for_status() of line 30
fetch_sitemap_NoStatusCheck(resp) ==
    IF resp.error
    THEN [raises |-> TRUE,  text |-> Malformed]
    ELSE [raises |-> FALSE, text |-> resp.text]

\* [raises, text]: the RequestException is printed and re-raised
fetch_sitemap(resp) ==
    IF resp.error \/ raise_for_status(resp)
    THEN [raises |-> TRUE,  text |-> Malformed]
    ELSE [raises |-> FALSE, text |-> resp.text]

-----------------------------------------------------------------------------
(* parse_sitemap *)

\* `x.text if x is not None else ''`
TextOrEmpty(e) == IF e = Absent THEN "" ELSE e

\* the dict built at lines 58-63
UrlData(el) ==
    [url        |-> el.loc.text,
     changefreq |-> TextOrEmpty(el.changefreq),
     priority   |-> TextOrEmpty(el.priority),
     lastmod    |-> TextOrEmpty(el.lastmod)]

\* Appended with the `not` of line 57 lost: keeps what the pattern matches
Appended_MissingNot(el) ==
    /\ el.loc.found
    /\ el.loc.hasText /\ url_pattern_match(el.loc.text)

\* the two conditions guarding the append
Appended(el) ==
    /\ el.loc.found
    /\ el.loc.hasText /\ ~url_pattern_match(el.loc.text)

\* the for loop over root.findall('ns:url'), from element k on
RECURSIVE ParseLoop(_, _, _)
ParseLoop(urls, k, acc) ==
    IF k > Len(urls) THEN acc
    ELSE ParseLoop(urls, k + 1,
                   IF Appended(urls[k]) THEN Append(acc, UrlData(urls[k])) ELSE acc)

\* [raises, urls_data]: ParseError is printed and re-raised
parse_sitemap(xml) ==
    IF ~xml.wellformed
    THEN [raises |-> TRUE,  urls_data |-> <<>>]
    ELSE [raises |-> FALSE, urls_data |-> ParseLoop(xml.urls, 1, <<>>)]

-----------------------------------------------------------------------------
(* The probed pages *)

\* what session.head(url) can produce: fail is a RequestException; otherwise
\* headers.get('Last-Modified') and headers.get('Date'), NoneVal when the
\* header is not there
HeadOutcomes == <<
    [fail |-> FALSE, last_modified |-> "Wed, 21 Oct 2015 07:28:00 GMT",
                     date |-> "Tue, 01 Jan 2030 00:00:00 GMT"],
    [fail |-> FALSE, last_modified |-> NoneVal, date |-> "Tue, 01 Jan 2030 00:00:00 GMT"],
    [fail |-> TRUE,  last_modified |-> NoneVal, date |-> NoneVal],
    [fail |-> FALSE, last_modified |-> "",      date |-> "Mon, 02 Feb 2004 00:00:00 GMT"],
    [fail |-> FALSE, last_modified |-> NoneVal, date |-> NoneVal],
    [fail |-> FALSE, last_modified |-> NoneVal, date |-> ""] >>

\* soup.find(...) found no such tag
NoTag == "<no tag>"

\* what session.get(url) plus BeautifulSoup can produce: fail is any
\* Exception; otherwise meta is tag.get('content') of the first
\* <meta name="last-modified"> and schema is tag.get('content') of the first
\* element with itemprop="dateModified": NoTag when there is no such tag,
\* NoneVal when the tag has no content attribute
GetOutcomes == <<
    [fail |-> FALSE, meta |-> "2024-05-01", schema |-> "2023-01-01"],
    [fail |-> TRUE,  meta |-> NoTag,        schema |-> NoTag],
    [fail |-> FALSE, meta |-> NoTag,        schema |-> "2022-12-31"],
    [fail |-> FALSE, meta |-> NoneVal,      schema |-> "2021-11-30"],
    [fail |-> FALSE, meta |-> NoTag,        schema |-> NoTag],
    [fail |-> FALSE, meta |-> "",           schema |-> "2020-10-29"],
    [fail |-> FALSE, meta |-> NoTag,        schema |-> NoneVal] >>

\* the server's answer to the HEAD and to the GET of the k-th probed record
HeadResponse(k) == HeadOutcomes[((hOff + k - 1) % Len(HeadOutcomes)) + 1]
GetResponse(k)  == GetOutcomes[((gOff + k - 1) % Len(GetOutcomes)) + 1]

-----------------------------------------------------------------------------
(* get_last_modified_from_page, get_last_modified_from_html *)

\* get_last_modified_from_page re-raising the RequestException, as
\* fetch_sitemap does
get_last_modified_from_page_Reraise(resp) ==
    IF resp.fail THEN [raises |-> TRUE, value |-> NoneVal]
    ELSE IF Truthy(resp.last_modified) THEN [raises |-> FALSE, value |-> resp.last_modified]
    ELSE IF Truthy(resp.date) THEN [raises |-> FALSE, value |-> resp.date]
    ELSE [raises |-> FALSE, value |-> NoneVal]

\* get_last_modified_from_page without the Date fallback of lines 89-91
get_last_modified_from_page_NoDate(resp) ==
    IF resp.fail THEN [raises |-> FALSE, value |-> NoneVal]
    ELSE IF Truthy(resp.last_modified) THEN [raises |-> FALSE, value |-> resp.last_modified]
    ELSE [raises |-> FALSE, value |-> NoneVal]

\* [raises, value]: a RequestException is printed and None returned
get_last_modified_from_page(resp) ==
    IF resp.fail THEN [raises |-> FALSE, value |-> NoneVal]
    ELSE IF Truthy(resp.last_modified) THEN [raises |-> FALSE, value |-> resp.last_modified]
    ELSE IF Truthy(resp.date) THEN [raises |-> FALSE, value |-> resp.date]
    ELSE [raises |-> FALSE, value |-> NoneVal]

\* `meta and meta.get('content')`: a Tag is always truthy
TagWithContent(t) == t # NoTag /\ Truthy(t)

\* get_last_modified_from_html deciding on the tag alone (`if meta:`): the
\* itemprop element is looked at only when there is no meta tag
get_last_modified_from_html_TagOnly(resp) ==
    IF resp.fail THEN [raises |-> FALSE, value |-> NoneVal]
    ELSE IF resp.meta # NoTag THEN [raises |-> FALSE, value |-> resp.meta]
    ELSE IF resp.schema # NoTag THEN [raises |-> FALSE, value |-> resp.schema]
    ELSE [raises |-> FALSE, value |-> NoneVal]

\* [raises, value]: any Exception is printed and None returned
get_last_modified_from_html(resp) ==
    IF resp.fail THEN [raises |-> FALSE, value |-> NoneVal]
    ELSE IF TagWithContent(resp.meta) THEN [raises |-> FALSE, value |-> resp.meta]
    ELSE IF TagWithContent(resp.schema) THEN [raises |-> FALSE, value |-> resp.schema]
    ELSE [raises |-> FALSE, value |-> NoneVal]

-----------------------------------------------------------------------------
(* scrape_pages, save_to_csv *)

\* Slice without the slice of line 119
Slice_NoCap(data) == data

\* urls_data[:MAX_URLS_TO_FETCH]
Slice(data) == SubSeq(data, 1, Min(Len(data), MAX_URLS_TO_FETCH))

\* Result with the wrong source key for sitemap_lastmod
Result_WrongLastmod(url_data, http_last_modified, http_last_modified2) ==
    [url                 |-> url_data.url,
     changefreq          |-> url_data.changefreq,
     priority            |-> url_data.priority,
     sitemap_lastmod     |-> url_data.changefreq,
     http_last_modified  |-> OrEmpty(http_last_modified),
     http_last_modified2 |-> OrEmpty(http_last_modified2)]

\* the dict built at lines 133-140
Result(url_data, http_last_modified, http_last_modified2) ==
    [url                 |-> url_data.url,
     changefreq          |-> url_data.changefreq,
     priority            |-> url_data.priority,
     sitemap_lastmod     |-> url_data.lastmod,
     http_last_modified  |-> OrEmpty(http_last_modified),
     http_last_modified2 |-> OrEmpty(http_last_modified2)]

\* csv.DictWriter writes None as the empty field
CsvField(v) == IF v = NoneVal THEN "" ELSE v

CsvRow(r) ==
    [url                 |-> r.url,
     changefreq          |-> CsvField(r.changefreq),
     priority            |-> CsvField(r.priority),
     sitemap_lastmod     |-> CsvField(r.sitemap_lastmod),
     http_last_modified  |-> CsvField(r.http_last_modified),
     http_last_modified2 |-> CsvField(r.http_last_modified2)]

CsvRows(data) == [j \in 1..Len(data) |-> CsvRow(data[j])]

\* f"/tmp/touchgfx-{epoch_timestamp}.csv"
DefaultFilename == "/tmp/touchgfx-<epoch>.csv"

NoFile == [written |-> FALSE, rows |-> <<>>]

\* main() with `except requests.RequestException`
main_catches_RequestOnly(e) == e = "RequestException"

\* `except Exception` in main(): every exception run() can raise is one
main_catches(e) == e \in {"RequestException", "ParseError", "OSError", "Exception"}
-----------------------------------------------------------------------------
(* The run *)

Event(op, url) == [op |-> op, url |-> url]

Init ==
    /\ pc = "fetch"
    /\ hOff \in 0..(Len(HeadOutcomes) - 1)
    /\ gOff \in 0..(Len(GetOutcomes) - 1)
    /\ response = NoResponse
    /\ xml_content = Malformed
    /\ urls_data = <<>>
    /\ capped = <<>>
    /\ i = 0
    /\ hlm = NoneVal
    /\ hlm2 = NoneVal
    /\ results = <<>>
    /\ src = <<>>
    /\ filename = NoneVal
    /\ csv = NoFile
    /\ raised = ""
    /\ exit = ""
    /\ log = <<>>
    /\ trace = <<>>

\* main() up to and including run()'s call of fetch_sitemap()
RunFetchSitemap ==
    /\ pc = "fetch"
    /\ \E resp \in SitemapResponses :
         LET r == fetch_sitemap(resp) IN
         /\ response' = resp
         /\ trace' = Append(trace, Event("GET sitemap", sitemap_url))
         /\ IF r.raises
            THEN /\ log' = log \o <<"Starting", "Fetching sitemap", "Error fetching sitemap">>
                 /\ raised' = "RequestException"
                 /\ pc' = "except"
                 /\ UNCHANGED xml_content
            ELSE /\ log' = log \o <<"Starting", "Fetching sitemap">>
                 /\ xml_content' = r.text
                 /\ pc' = "parse"
                 /\ UNCHANGED raised
    /\ UNCHANGED <<hOff, gOff, urls_data, capped, i, hlm, hlm2, results, src,
                   filename, csv, exit>>

\* run(): urls_data = self.parse_sitemap(xml_content)
RunParseSitemap ==
    /\ pc = "parse"
    /\ LET r == parse_sitemap(xml_content) IN
         /\ trace' = Append(trace, Event("parse", <<>>))
         /\ IF r.raises
            THEN /\ log' = log \o <<"Parsing sitemap", "Error parsing XML">>
                 /\ raised' = "ParseError"
                 /\ pc' = "except"
                 /\ UNCHANGED urls_data
            ELSE /\ log' = log \o <<"Parsing sitemap", "Found URLs">>
                 /\ urls_data' = r.urls_data
                 /\ pc' = "check"
                 /\ UNCHANGED raised
    /\ UNCHANGED <<hOff, gOff, response, xml_content, capped, i, hlm, hlm2, results, src,
                   filename, csv, exit>>

\* RunCheckEmpty without the early return of lines 178-181
RunCheckEmpty_NoReturn ==
    /\ pc = "check"
    /\ pc' = "scrape"
    /\ UNCHANGED <<hOff, gOff, response, xml_content, urls_data, capped, i, hlm, hlm2,
                   results, src, filename, csv, raised, exit, log, trace>>

\* run(): `if not urls_data: ... return ""`
RunCheckEmpty ==
    /\ pc = "check"
    /\ IF Len(urls_data) = 0
       THEN /\ log' = Append(log, "No URLs found")
            /\ filename' = ""
            /\ pc' = "return"
       ELSE /\ pc' = "scrape"
            /\ UNCHANGED <<log, filename>>
    /\ UNCHANGED <<hOff, gOff, response, xml_content, urls_data, capped, i, hlm, hlm2,
                   results, src, csv, raised, exit, trace>>

\* the for loop's step to the next record, or out of the loop
LoopTo(k) == IF k <= Len(capped) THEN "head" ELSE "save"

\* scrape_pages() up to the loop
ScrapeStart ==
    /\ pc = "scrape"
    /\ capped' = Slice(urls_data)
    /\ results' = <<>>
    /\ src' = <<>>
    /\ i' = 1
    /\ log' = Append(log, "Processing N URLs")
    /\ pc' = IF 1 <= Len(Slice(urls_data)) THEN "head" ELSE "save"
    /\ UNCHANGED <<hOff, gOff, response, xml_content, urls_data, hlm, hlm2, filename, csv,
                   raised, exit, trace>>

\* http_last_modified = self.get_last_modified_from_page(url_data['url'])
ScrapeHead ==
    /\ pc = "head"
    /\ LET r == get_last_modified_from_page(HeadResponse(i)) IN
         /\ trace' = Append(trace, Event("HEAD", capped[i].url))
         /\ IF r.raises
            THEN /\ log' = Append(log, "Processing i/N")
                 /\ raised' = "RequestException"
                 /\ pc' = "except"
                 /\ UNCHANGED hlm
            ELSE /\ log' = log \o (IF HeadResponse(i).fail
                                   THEN <<"Processing i/N", "Error fetching headers">>
                                   ELSE <<"Processing i/N">>)
                 /\ hlm' = r.value
                 /\ pc' = "get"
                 /\ UNCHANGED raised
    /\ UNCHANGED <<hOff, gOff, response, xml_content, urls_data, capped, i, hlm2, results,
                   src, filename, csv, exit>>

\* ScrapeGet as the comment of line 130 words it: the GET is a fallback,
\* issued only when the headers gave nothing
ScrapeGet_Fallback ==
    /\ pc = "get"
    /\ IF Truthy(hlm)
       THEN /\ hlm2' = NoneVal
            /\ pc' = "append"
            /\ UNCHANGED <<trace, log>>
       ELSE LET r == get_last_modified_from_html(GetResponse(i)) IN
            /\ trace' = Append(trace, Event("GET", capped[i].url))
            /\ log' = log \o (IF GetResponse(i).fail
                              THEN <<"Error fetching/parsing HTML">>
                              ELSE <<>>)
            /\ hlm2' = r.value
            /\ pc' = "append"
    /\ UNCHANGED <<hOff, gOff, response, xml_content, urls_data, capped, i, hlm, results,
                   src, filename, csv, raised, exit>>

\* http_last_modified2 = self.get_last_modified_from_html(url_data['url'])
ScrapeGet ==
    /\ pc = "get"
    /\ LET r == get_last_modified_from_html(GetResponse(i)) IN
         /\ trace' = Append(trace, Event("GET", capped[i].url))
         /\ IF r.raises
            THEN /\ raised' = "Exception"
                 /\ pc' = "except"
                 /\ UNCHANGED <<hlm2, log>>
            ELSE /\ log' = log \o (IF GetResponse(i).fail
                                   THEN <<"Error fetching/parsing HTML">>
                                   ELSE <<>>)
                 /\ hlm2' = r.value
                 /\ pc' = "append"
                 /\ UNCHANGED raised
    /\ UNCHANGED <<hOff, gOff, response, xml_content, urls_data, capped, i, hlm, results,
                   src, filename, csv, exit>>

\* results.append(result); time.sleep(FETCH_DELAY); next iteration
ScrapeAppend ==
    /\ pc = "append"
    /\ results' = Append(results, Result(capped[i], hlm, hlm2))
    /\ src' = Append(src, i)
    /\ trace' = Append(trace, Event("sleep", <<>>))
    /\ i' = i + 1
    /\ pc' = LoopTo(i + 1)
    /\ UNCHANGED <<hOff, gOff, response, xml_content, urls_data, capped, hlm, hlm2,
                   filename, csv, raised, exit, log>>

\* run(): filename = self.save_to_csv(results); open() may raise OSError
RunSaveToCsv ==
    /\ pc = "save"
    /\ trace' = Append(trace, Event("write", <<>>))
    /\ \E opened \in BOOLEAN :
         IF opened
         THEN /\ csv' = [written |-> TRUE, rows |-> CsvRows(results)]
              /\ filename' = DefaultFilename
              /\ log' = log \o <<"Data saved", "Scraping completed">>
              /\ pc' = "return"
              /\ UNCHANGED raised
         ELSE /\ raised' = "OSError"
              /\ pc' = "except"
              /\ UNCHANGED <<csv, filename, log>>
    /\ UNCHANGED <<hOff, gOff, response, xml_content, urls_data, capped, i, hlm, hlm2,
                   results, src, exit>>

\* main(): run() returned
MainSuccess ==
    /\ pc = "return"
    /\ log' = log \o <<"Process completed successfully", "Elapsed time">>
    /\ exit' = "returned"
    /\ pc' = "done"
    /\ UNCHANGED <<hOff, gOff, response, xml_content, urls_data, capped, i, hlm, hlm2,
                   results, src, filename, csv, raised, trace>>

\* main(): run() raised
MainExcept ==
    /\ pc = "except"
    /\ IF main_catches(raised)
       THEN /\ log' = log \o <<"Error during scraping", "Elapsed time">>
            /\ exit' = "returned"
       ELSE /\ exit' = "raised"
            /\ UNCHANGED log
    /\ pc' = "done"
    /\ UNCHANGED <<hOff, gOff, response, xml_content, urls_data, capped, i, hlm, hlm2,
                   results, src, filename, csv, raised, trace>>

Next ==
    \/ RunFetchSitemap
    \/ RunParseSitemap
    \/ RunCheckEmpty
    \/ ScrapeStart
    \/ ScrapeHead
    \/ ScrapeGet
    \/ ScrapeAppend
    \/ RunSaveToCsv
    \/ MainSuccess
    \/ MainExcept

Spec == Init /\ [][Next]_vars
-----------------------------------------------------------------------------
(* Properties *)

HasEvent(op) == \E k \in 1..Len(trace) : trace[k].op = op

HasLine(line) == \E k \in 1..Len(log) : log[k] = line

\* parse_sitemap has returned a list
ParseReturned == HasLine("Found URLs")

\* scrape_pages has returned its results
ScrapeReturned == pc = "save" \/ HasEvent("write")

\* an entry whose <loc> is present, non-empty and not excluded
Kept(el) ==
    /\ el.loc.found
    /\ el.loc.hasText
    /\ el.loc.text # <<>>
    /\ ~url_pattern_match(el.loc.text)

\* number of Enriched Records built from the k-th URL Record
Occurrences(k) == Cardinality({j \in 1..Len(results) : src[j] = k})

C2_EnrichedCountAndUrls ==
    /\ Len(results) <= MAX_URLS_TO_FETCH
    /\ ScrapeReturned =>
        /\ Len(results) = Min(Len(urls_data), MAX_URLS_TO_FETCH)
        /\ \A j \in 1..Len(results) : results[j].url = urls_data[j].url

\* more URL Records than the maximum went in
C2_Witness ==
    /\ ScrapeReturned
    /\ Len(urls_data) > MAX_URLS_TO_FETCH
    /\ Len(results) = MAX_URLS_TO_FETCH

\* C3 as stated: every record parse_sitemap returned appears exactly once in
\* the Enriched output, with sitemap_lastmod equal to its lastmod.
C3_EveryRecordOnce ==
    ScrapeReturned =>
        \A k \in 1..Len(urls_data) :
            /\ Occurrences(k) = 1
            /\ \A j \in 1..Len(results) :
                 src[j] = k => results[j].sitemap_lastmod = urls_data[k].lastmod

\* C3 amended: each of the first MAX_URLS_TO_FETCH records parse_sitemap
\* returned appears exactly once in the Enriched output, at its own position
\* and with sitemap_lastmod equal to its lastmod; the records after the
\* first MAX_URLS_TO_FETCH do not appear.
C3_EveryCappedRecordOnce ==
    ScrapeReturned =>
        \A k \in 1..Len(urls_data) :
            IF k <= MAX_URLS_TO_FETCH
            THEN /\ Occurrences(k) = 1
                 /\ k <= Len(results)
                 /\ src[k] = k
                 /\ results[k].sitemap_lastmod = urls_data[k].lastmod
            ELSE Occurrences(k) = 0

\* a record beyond the maximum exists, and a lastmod that is not a plain
\* string was carried over
C3_Witness ==
    /\ ScrapeReturned
    /\ Len(urls_data) = MAX_URLS_TO_FETCH + 1
    /\ \E j \in 1..Len(results) :
         /\ urls_data[j].lastmod = NoneVal
         /\ results[j].sitemap_lastmod = NoneVal

\* C4: a failed HEAD or GET never aborts the batch: the record still gets an
\* Enriched Record, with the field of the failed request empty, and the loop
\* goes on until every capped record has one.
C4_ProbeFailuresAreNotFatal ==
    /\ \A j \in 1..Len(results) :
         /\ HeadResponse(src[j]).fail => results[j].http_last_modified = ""
         /\ GetResponse(src[j]).fail => results[j].http_last_modified2 = ""
    /\ (HasEvent("HEAD") /\ ~HasEvent("write")) => raised = ""
    /\ pc = "head" => Len(results) = i - 1
    /\ ScrapeReturned => Len(results) = Min(Len(urls_data), MAX_URLS_TO_FETCH)

\* both requests of a record failed and a later record was still processed
C4_Witness ==
    /\ ScrapeReturned
    /\ \E j \in 1..Len(results) :
         /\ j < Len(results)
         /\ HeadResponse(j).fail
         /\ GetResponse(j).fail
         /\ results[j].url = urls_data[j].url

\* C5: when the sitemap fetch fails (transport error or error status), the
\* run aborts: nothing is parsed, no page is probed, no CSV is written, and
\* the error line and the elapsed time are printed.
C5_FetchFailureAborts ==
    (trace # <<>> /\ (response.error \/ response.status >= 400)) =>
        /\ trace = <<Event("GET sitemap", sitemap_url)>>
        /\ csv = NoFile
        /\ urls_data = <<>>
        /\ pc \in {"except", "done"}
        /\ pc = "done" =>
             log = <<"Starting", "Fetching sitemap", "Error fetching sitemap",
                     "Error during scraping", "Elapsed time">>

\* the sitemap fetch answered HTTP 500 and the run is over
C5_Witness ==
    /\ pc = "done"
    /\ ~response.error
    /\ response.status = 500

\* C6: when no URL Record survives filtering, run() prints the empty-result
\* message and returns "": no page is probed and no CSV is written.
C6_EmptyResultEndsEarly ==
    (ParseReturned /\ urls_data = <<>> /\ pc # "check") =>
        /\ pc \in {"return", "done"}
        /\ HasLine("No URLs found")
        /\ filename = ""
        /\ ~HasEvent("HEAD") /\ ~HasEvent("GET") /\ ~HasEvent("write")
        /\ csv = NoFile

\* a sitemap with entries, all of them filtered out
C6_Witness ==
    /\ pc = "done"
    /\ ParseReturned
    /\ urls_data = <<>>
    /\ Len(xml_content.urls) > 0

\* C7: a failed fetch, parse or CSV write is caught in main(): the error
\* line and the elapsed time are printed, the success line is not, main()
\* returns without raising, and every run gets to its end.
C7_FatalFailuresAreCaught ==
    /\ pc = "done" \/ ENABLED Next
    /\ exit # "raised"
    /\ pc = "done" => exit = "returned"
    /\ (pc = "done" /\ raised # "") =>
         /\ Len(log) >= 2
         /\ log[Len(log) - 1] = "Error during scraping"
         /\ log[Len(log)] = "Elapsed time"
         /\ ~HasLine("Process completed successfully")

\* the CSV file could not be opened after all records had been probed
C7_Witness ==
    /\ pc = "done"
    /\ raised = "OSError"
    /\ Len(results) > 0
    /\ csv = NoFile

\* C8: http_last_modified is the Last-Modified header when present and
\* non-empty, otherwise the Date header when present, otherwise "" (also
\* when the HEAD request failed).
C8_HeaderFallback ==
    \A j \in 1..Len(results) :
        LET h == HeadResponse(src[j]) IN
        results[j].http_last_modified =
            IF ~h.fail /\ h.last_modified # NoneVal /\ h.last_modified # ""
            THEN h.last_modified
            ELSE IF ~h.fail /\ h.date # NoneVal THEN h.date
            ELSE ""

\* no Last-Modified header, and the Date header was taken
C8_Witness ==
    \E j \in 1..Len(results) :
        /\ ~HeadResponse(src[j]).fail
        /\ HeadResponse(src[j]).last_modified = NoneVal
        /\ HeadResponse(src[j]).date = "Tue, 01 Jan 2030 00:00:00 GMT"
        /\ results[j].http_last_modified = "Tue, 01 Jan 2030 00:00:00 GMT"

\* the content attribute of a tag soup.find() returned, "" when it has none
ContentOf(t) == IF t = NoneVal THEN "" ELSE t

\* C9 as stated: http_last_modified2 is the content of the
\* <meta name="last-modified"> tag whenever that tag is present; the
\* dateModified element is used only when the tag is absent; "" when neither
\* is found or the GET failed.
C9_MetaTagDecides ==
    \A j \in 1..Len(results) :
        LET g == GetResponse(src[j]) IN
        results[j].http_last_modified2 =
            IF g.fail THEN ""
            ELSE IF g.meta # NoTag THEN ContentOf(g.meta)
            ELSE IF g.schema # NoTag THEN ContentOf(g.schema)
            ELSE ""

\* C9 amended: http_last_modified2 is the content of the
\* <meta name="last-modified"> tag when that tag is present with a non-empty
\* content; otherwise (tag absent, or without content) the content of the
\* dateModified element when that is present and non-empty; otherwise "",
\* as when the GET or the parse fails.
C9_MetaContentDecides ==
    \A j \in 1..Len(results) :
        LET g == GetResponse(src[j]) IN
        results[j].http_last_modified2 =
            IF ~g.fail /\ g.meta # NoTag /\ ContentOf(g.meta) # ""
            THEN g.meta
            ELSE IF ~g.fail /\ g.schema # NoTag /\ ContentOf(g.schema) # ""
            THEN g.schema
            ELSE ""

\* a meta tag without content, and the dateModified element was taken
C9_Witness ==
    \E j \in 1..Len(results) :
        /\ ~GetResponse(src[j]).fail
        /\ GetResponse(src[j]).meta = NoneVal
        /\ results[j].http_last_modified2 = GetResponse(src[j]).schema
        /\ results[j].http_last_modified2 # ""

====
